---- MODULE Spec2Model ----
(***************************************************************************)
(* Model of src/ceda_utils.py: refresh_access_token, setup_credentials and *)
(* get_weather_data.  One call runs at a time (the module is synchronous); *)
(* a call that sends an HTTP request waits for the server's response,      *)
(* which is an input chosen by the environment.                            *)
(*                                                                         *)
(* Strings that the code only compares or copies are TLA+ strings.         *)
(* Credentials are byte sequences, so that b64encode is computed.  A GET   *)
(* body is the sequence of its lines (the text is the lines joined by      *)
(* "\n"; a text that ends in "\n" has an empty last line), each line the   *)
(* sequence of its comma-separated fields.  A POST body is a sequence of   *)
(* JSON tokens (punctuation and string literals).                          *)
(***************************************************************************)
EXTENDS Integers, Sequences, FiniteSets, TLC

VARIABLES env, pc, call, sent, out, reads, resp, parsed, result

vars == <<env, pc, call, sent, out, reads, resp, parsed, result>>

\* ---------------------------------------------------------------- bounds
\* Longest GET body, in lines (before the optional trailing newline).
MaxLines == 5

\* ------------------------------------------------------------- constants
StatusOK == 200

TokenUrl == "https://services.ceda.ac.uk/api/token/create/"

EnvNames == {"CEDA_ACCESS_TOKEN", "CEDA_USERNAME", "CEDA_PASSWORD"}

\* ------------------------------------------------- optional values (None)
\* None for a credential (a byte sequence) and for a token (a string).
None == [set |-> FALSE, val |-> <<>>]
NoToken == [set |-> FALSE, val |-> ""]
Some(v) == [set |-> TRUE, val |-> v]

\* ------------------------------------------------------------ input sets
\* The empty string is a value an environment variable can hold.
EnvTokens == {"", "tokEnv"}
\* "ue" in the environment, "a" as an argument.
EnvUser == <<117, 101>>
ArgUser == <<97>>
\* "pw!" in the environment, "s3" as an argument.
EnvPass == <<112, 119, 33>>
ArgPass == <<115, 51>>
Passwords == {EnvPass, ArgPass, <<>>}

Urls == {"https://dap.ceda.ac.uk/a.csv", "https://dap.ceda.ac.uk/b.csv"}
BearerTokens == {"tokEnv", "tokNew"}

Statuses == {StatusOK, 404}

\* ------------------------------------------------------------- b64encode
\* base64 of a byte sequence, as the sequence of its 6-bit digits; 64 is "=".
RECURSIVE B64Encode(_)
B64Encode(b) ==
    IF Len(b) = 0 THEN <<>>
    ELSE IF Len(b) = 1 THEN
        <<b[1] \div 4, (b[1] % 4) * 16, 64, 64>>
    ELSE IF Len(b) = 2 THEN
        <<b[1] \div 4, (b[1] % 4) * 16 + b[2] \div 16, (b[2] % 16) * 4, 64>>
    ELSE
        <<b[1] \div 4, (b[1] % 4) * 16 + b[2] \div 16,
          (b[2] % 16) * 4 + b[3] \div 64, b[3] % 64>>
        \o B64Encode(SubSeq(b, 4, Len(b)))

\* f"{username}:{password}".encode('utf-8'); 58 is ":".
UserPass(username, password) == username \o <<58>> \o password

\* headers = {"Authorization": f'Basic {token}'}
BasicHeader(username, password) ==
    [scheme |-> "Basic", cred |-> B64Encode(UserPass(username, password))]

\* headers = {"Authorization": f"Bearer {access_token}"}
BearerHeader(access_token) == [scheme |-> "Bearer", cred |-> access_token]

\* ----------------------------------------------------------------- print
NoHeader == [scheme |-> "", cred |-> <<>>]
PrintMsg(m) == [msg |-> m, hdr |-> NoHeader, body |-> <<>>]
\* print(headers)
PrintHeaders(h) == [msg |-> "headers", hdr |-> h, body |-> <<>>]
\* print(response.content.decode("utf8"))
PrintBody(b) == [msg |-> "body", hdr |-> NoHeader, body |-> b]

\* --------------------------------------------------------------- outcomes
NoTable == [columns |-> <<>>, rows |-> <<>>]
NoOutcome ==
    [kind |-> "none", exc |-> "", var |-> "", status |-> 0, text |-> <<>>,
     token |-> "", table |-> NoTable]
ReturnToken(t) == [NoOutcome EXCEPT !.kind = "return", !.token = t]
ReturnTable(df) == [NoOutcome EXCEPT !.kind = "return", !.table = df]
\* raise KeyError("<var> environment variable is required")
RaiseKeyError(v) == [NoOutcome EXCEPT !.kind = "raise", !.exc = "KeyError", !.var = v]
\* raise RuntimeError(f"... error code {status_code}: {text}")
RaiseStatus(status, text) ==
    [NoOutcome EXCEPT !.kind = "raise", !.exc = "RuntimeError",
                      !.status = status, !.text = text]
\* an exception raised by a library call or an operator, not by a raise statement
RaiseOther(e) == [NoOutcome EXCEPT !.kind = "raise", !.exc = e]

\* ------------------------------------------------------------- json.loads
JsonPunct == {"{", "}", ":", ","}
IsJsonString(t) == t \notin JsonPunct

\* The members of an object: key ":" value ("," key ":" value)*.  A later
\* duplicate key replaces an earlier one.
RECURSIVE ParseMembers(_)
ParseMembers(m) ==
    IF Len(m) < 3 \/ ~IsJsonString(m[1]) \/ m[2] # ":" \/ ~IsJsonString(m[3])
    THEN [ok |-> FALSE, obj |-> <<>>]
    ELSE IF Len(m) = 3 THEN [ok |-> TRUE, obj |-> (m[1] :> m[3])]
    ELSE IF m[4] # "," THEN [ok |-> FALSE, obj |-> <<>>]
    ELSE LET rest == ParseMembers(SubSeq(m, 5, Len(m)))
         IN  IF rest.ok THEN [ok |-> TRUE, obj |-> rest.obj @@ (m[1] :> m[3])]
             ELSE rest

\* json.loads(response.text): an object, a string, or JSONDecodeError.
JsonLoads(text) ==
    IF Len(text) = 1 /\ IsJsonString(text[1])
    THEN [kind |-> "string", obj |-> <<>>]
    ELSE IF Len(text) >= 2 /\ text[1] = "{" /\ text[Len(text)] = "}"
    THEN IF Len(text) = 2 THEN [kind |-> "object", obj |-> <<>>]
         ELSE LET m == ParseMembers(SubSeq(text, 2, Len(text) - 1))
              IN  IF m.ok THEN [kind |-> "object", obj |-> m.obj]
                  ELSE [kind |-> "error", obj |-> <<>>]
    ELSE [kind |-> "error", obj |-> <<>>]

\* Bodies the token endpoint may answer with.
PostTexts ==
    { <<"{", "access_token", ":", "tokNew", "}">>,
      <<"{", "access_token", ":", "tokOld", ",", "access_token", ":", "tokNew", "}">>,
      <<"{", "expires", ":", "never", ",", "access_token", ":", "tokOther", "}">>,
      <<"{", "detail", ":", "denied", "}">>,
      <<"{", "}">>,
      <<"{", "access_token", ":">>,
      <<"denied">>,
      <<>> }

\* ---------------------------------------------------- refresh_access_token
\* Lines 52-62 with the password resolved before the username.
ResolveCredentialsPasswordFirst(username, password, e) ==
    LET readP == ~password.set
        p == IF readP THEN e["CEDA_PASSWORD"] ELSE password
        readU == p.set /\ ~username.set
        u == IF readU THEN e["CEDA_USERNAME"] ELSE username
        rd == (IF readP THEN <<"CEDA_PASSWORD">> ELSE <<>>)
              \o (IF readU THEN <<"CEDA_USERNAME">> ELSE <<>>)
    IN  IF ~p.set THEN [ok |-> FALSE, missing |-> "CEDA_PASSWORD", reads |-> rd,
                        username |-> <<>>, password |-> <<>>]
        ELSE IF ~u.set THEN [ok |-> FALSE, missing |-> "CEDA_USERNAME", reads |-> rd,
                             username |-> <<>>, password |-> <<>>]
        ELSE [ok |-> TRUE, missing |-> "", reads |-> rd,
              username |-> u.val, password |-> p.val]

\* Lines 52-62 with the environment preferred to the arguments.
ResolveCredentialsEnvFirst(username, password, e) ==
    LET readU == TRUE
        u == IF e["CEDA_USERNAME"].set THEN e["CEDA_USERNAME"] ELSE username
        readP == u.set
        p == IF e["CEDA_PASSWORD"].set THEN e["CEDA_PASSWORD"] ELSE password
        rd == <<"CEDA_USERNAME">> \o (IF readP THEN <<"CEDA_PASSWORD">> ELSE <<>>)
    IN  IF ~u.set THEN [ok |-> FALSE, missing |-> "CEDA_USERNAME", reads |-> rd,
                        username |-> <<>>, password |-> <<>>]
        ELSE IF ~p.set THEN [ok |-> FALSE, missing |-> "CEDA_PASSWORD", reads |-> rd,
                             username |-> <<>>, password |-> <<>>]
        ELSE [ok |-> TRUE, missing |-> "", reads |-> rd,
              username |-> u.val, password |-> p.val]

\* Lines 52-62: each credential comes from its argument, or from the
\* environment when the argument is None; the username is resolved first.
\* reads: the environment variables read, in order.
ResolveCredentials(username, password, e) ==
    LET readU == ~username.set
        u == IF readU THEN e["CEDA_USERNAME"] ELSE username
        readP == u.set /\ ~password.set
        p == IF readP THEN e["CEDA_PASSWORD"] ELSE password
        rd == (IF readU THEN <<"CEDA_USERNAME">> ELSE <<>>)
              \o (IF readP THEN <<"CEDA_PASSWORD">> ELSE <<>>)
    IN  IF ~u.set THEN [ok |-> FALSE, missing |-> "CEDA_USERNAME", reads |-> rd,
                        username |-> <<>>, password |-> <<>>]
        ELSE IF ~p.set THEN [ok |-> FALSE, missing |-> "CEDA_PASSWORD", reads |-> rd,
                             username |-> <<>>, password |-> <<>>]
        ELSE [ok |-> TRUE, missing |-> "", reads |-> rd,
              username |-> u.val, password |-> p.val]

\* Lines 77-80 with response_data.get("access_token") for the subscript.
ParseTokenLenient(text) ==
    LET response_data == JsonLoads(text)
    IN  IF response_data.kind = "error" THEN RaiseOther("JSONDecodeError")
        ELSE IF response_data.kind # "object" THEN RaiseOther("TypeError")
        ELSE IF "access_token" \notin DOMAIN response_data.obj
             THEN ReturnToken("")
        ELSE ReturnToken(response_data.obj["access_token"])

\* Lines 77-80: json.loads, then response_data["access_token"].
ParseToken(text) ==
    LET response_data == JsonLoads(text)
    IN  IF response_data.kind = "error" THEN RaiseOther("JSONDecodeError")
        ELSE IF response_data.kind # "object" THEN RaiseOther("TypeError")
        ELSE IF "access_token" \notin DOMAIN response_data.obj
             THEN RaiseKeyError("access_token")
        ELSE ReturnToken(response_data.obj["access_token"])

\* Lines 76-84 without the status check.
RefreshOutcomeUnchecked(status, text) == ParseToken(text)

\* Lines 76-84: what the call ends in, given the response.
RefreshOutcome(status, text) ==
    IF status = StatusOK THEN ParseToken(text) ELSE RaiseStatus(status, text)

\* Lines 76-79: what the call prints after the response.
RefreshPrints(status, text) ==
    IF RefreshOutcome(status, text).kind = "return"
    THEN <<PrintMsg("[INFO] CEDA access token refreshed successfully.")>>
    ELSE <<>>

\* ------------------------------------------------------- GET body alphabet
EmptyLine == <<>>
DataLine == <<"data">>
EndDataLine == <<"end data">>
ObsA == <<"observation_station", "G", "heathrow">>
ObsB == <<"observation_station", "G", "kew">>
Row == <<"ob_time", "air_temperature">>
Letters == {DataLine, EndDataLine, ObsA, ObsB, Row}

SeqsUpTo(S, n) == UNION { [1..k -> S] : k \in 0..n }

\* Every text of at most MaxLines lines over Letters, with or without a
\* trailing newline; the empty text is the single empty line.
GetBodies ==
    { ls \o tail : ls \in SeqsUpTo(Letters, MaxLines),
                   tail \in {<<>>, <<EmptyLine>>} } \ {<<>>}

\* ------------------------------------------------------------- str.split
\* The last occurrence of the marker instead of the first.
LastMarker(lines, marker) ==
    LET hits == { i \in 2..(Len(lines) - 1) : lines[i] = marker }
    IN  IF hits = {} THEN 0 ELSE CHOOSE i \in hits : \A j \in hits : i >= j

\* The first line i of the text with "\n" before it and after it that
\* equals the marker, or 0: the first occurrence of "\n<marker>\n".
FirstMarker(lines, marker) ==
    LET hits == { i \in 2..(Len(lines) - 1) : lines[i] = marker }
    IN  IF hits = {} THEN 0 ELSE CHOOSE i \in hits : \A j \in hits : i <= j

\* text.split("\n<marker>\n"): the parts between the occurrences, found left
\* to right without overlap (an occurrence uses up both its newlines).
RECURSIVE SplitOn(_, _)
SplitOn(lines, marker) ==
    LET i == FirstMarker(lines, marker)
    IN  IF i = 0 THEN <<lines>>
        ELSE <<SubSeq(lines, 1, i - 1)>>
             \o SplitOn(SubSeq(lines, i + 1, Len(lines)), marker)

\* ----------------------------------------------------------- pd.read_csv
RECURSIVE NonBlank(_)
NonBlank(lines) ==
    IF lines = <<>> THEN <<>>
    ELSE (IF Head(lines) = EmptyLine THEN <<>> ELSE <<Head(lines)>>)
         \o NonBlank(Tail(lines))

Max(a, b) == IF a >= b THEN a ELSE b

\* pd.read_csv(io.StringIO(data)) with its defaults: blank lines are skipped,
\* the first line names the columns, no line to read is EmptyDataError, and
\* a line after the first data line with more fields than the lines before
\* it is ParserError.
ReadCsv(lines) ==
    LET ls == NonBlank(lines)
        width == IF Len(ls) >= 2 THEN Max(Len(ls[1]), Len(ls[2])) ELSE 0
    IN  IF ls = <<>> THEN [err |-> "EmptyDataError", df |-> NoTable]
        ELSE IF \E i \in 3..Len(ls) : Len(ls[i]) > width
             THEN [err |-> "ParserError", df |-> NoTable]
        ELSE [err |-> "",
              df |-> [columns |-> ls[1],
                      rows |-> [i \in 1..(Len(ls) - 1) |->
                                   [cells |-> ls[i + 1], weather_station |-> ""]]]]

\* df["weather_station"] = location
SetStation(df, location) ==
    [columns |-> IF \E i \in 1..Len(df.columns) : df.columns[i] = "weather_station"
                 THEN df.columns ELSE Append(df.columns, "weather_station"),
     rows |-> [i \in 1..Len(df.rows) |->
                  [df.rows[i] EXCEPT !.weather_station = location]]]

\* -------------------------------------------------------------- re.search
\* \w+ at the start of a field: the longest run of word characters.
WordPrefix(f) == IF f = "end data" THEN "end" ELSE f
\* The field is \w+ from end to end.
IsWord(f) == f # "" /\ WordPrefix(f) = f

\* The places (line, field) of the text where the pattern
\* observation_station,\w+,(\w+) matches.
ObsMatches(header) ==
    { p \in UNION { { <<l, i>> : i \in 1..(Len(header[l]) - 2) } :
                    l \in 1..Len(header) } :
        /\ header[p[1]][p[2]] = "observation_station"
        /\ IsWord(header[p[1]][p[2] + 1])
        /\ WordPrefix(header[p[1]][p[2] + 2]) # "" }

\* re.search(...): the leftmost match, or None.  groups() of a match is the
\* tuple of the pattern's groups, and the pattern has one group.
ReSearch(header) ==
    LET ms == ObsMatches(header)
    IN  IF ms = {} THEN [found |-> FALSE, groups |-> <<>>]
        ELSE LET p == CHOOSE p \in ms :
                        \A q \in ms : p[1] < q[1] \/ (p[1] = q[1] /\ p[2] <= q[2])
             IN  [found |-> TRUE,
                  groups |-> <<WordPrefix(header[p[1]][p[2] + 2])>>]

\* ------------------------------------------------------- get_weather_data
MultipleMatches == "Multiple matches found for location in the csv."

\* Lines 124-132: the table of a 200 body, or the exception on the way.
ParseWeather(body) ==
    LET parts == SplitOn(body, DataLine)
    IN  IF Len(parts) # 2 THEN RaiseOther("ValueError")
        ELSE LET header == parts[1]
                 data == SplitOn(parts[2], EndDataLine)[1]
                 csv == ReadCsv(data)
                 m == ReSearch(header)
             IN  IF csv.err # "" THEN RaiseOther(csv.err)
                 ELSE IF ~m.found THEN RaiseOther("AttributeError")
                 ELSE IF Len(m.groups) = 1
                      THEN ReturnTable(SetStation(csv.df, m.groups[1]))
                 ELSE [RaiseOther("RuntimeError") EXCEPT !.var = MultipleMatches]

\* Lines 122-138 with the status compared by >=.
GetOutcomeLoose(status, body) ==
    IF status >= StatusOK THEN ParseWeather(body) ELSE RaiseStatus(status, body)

\* Lines 122-138: what the call ends in, given the response.
GetOutcome(status, body) ==
    IF status = StatusOK THEN ParseWeather(body) ELSE RaiseStatus(status, body)

\* ------------------------------------------------------------------ state
NoCall ==
    [fn |-> "", username |-> None, password |-> None, url |-> "",
     access_token |-> "", resolved |-> FALSE, user |-> <<>>, pass |-> <<>>]
NoResponse == [status |-> 0, text |-> <<>>]

\* The environment is set before the module runs and the module never
\* writes it.
Init ==
    /\ \E t \in {NoToken} \cup {Some(x) : x \in EnvTokens},
          u \in {None, Some(EnvUser)}, p \in {None, Some(EnvPass)} :
          env = [n \in EnvNames |->
                    IF n = "CEDA_ACCESS_TOKEN" THEN t
                    ELSE IF n = "CEDA_USERNAME" THEN u ELSE p]
    /\ pc = "idle"
    /\ call = NoCall
    /\ sent = <<>>
    /\ out = <<>>
    /\ reads = <<>>
    /\ resp = NoResponse
    /\ parsed = FALSE
    /\ result = NoOutcome

\* Line 73 inside a retry loop of two attempts.
PostRequestsTwice(hdr) ==
    <<[method |-> "POST", url |-> TokenUrl, hdr |-> hdr],
      [method |-> "POST", url |-> TokenUrl, hdr |-> hdr]>>

\* requests.post(url, headers=headers), line 73: the requests one call sends.
PostRequests(hdr) == <<[method |-> "POST", url |-> TokenUrl, hdr |-> hdr]>>

\* requests.get(url, headers=headers), line 120.
GetRequests(url, access_token) ==
    <<[method |-> "GET", url |-> url, hdr |-> BearerHeader(access_token)]>>

\* refresh_access_token up to its POST (lines 52-73), entered with the
\* environment reads and the output of the caller so far.
RefreshBegin(fn, username, password, reads0, out0) ==
    LET r == ResolveCredentials(username, password, env)
        hdr == BasicHeader(r.username, r.password)
    IN  /\ reads' = reads0 \o r.reads
        /\ call' = [NoCall EXCEPT !.fn = fn, !.username = username,
                                  !.password = password, !.resolved = r.ok,
                                  !.user = r.username, !.pass = r.password]
        /\ IF r.ok
           THEN /\ out' = out0 \o <<PrintHeaders(hdr)>>
                /\ sent' = PostRequests(hdr)
                /\ pc' = "post_wait"
                /\ result' = NoOutcome
           ELSE /\ out' = out0
                /\ sent' = <<>>
                /\ pc' = "done"
                /\ result' = RaiseKeyError(r.missing)
        /\ UNCHANGED <<env, resp, parsed>>

\* A caller calls refresh_access_token(username, password).
CallRefreshAccessToken ==
    /\ pc = "idle"
    /\ \E username \in {None, Some(ArgUser)}, password \in {None, Some(ArgPass)} :
          RefreshBegin("refresh_access_token", username, password, <<>>, <<>>)

\* Lines 97-100 with os.environ.get('CEDA_ACCESS_TOKEN') tested for truth.
EnvTokenTruthy(e) ==
    IF e["CEDA_ACCESS_TOKEN"].set /\ e["CEDA_ACCESS_TOKEN"].val # ""
    THEN e["CEDA_ACCESS_TOKEN"] ELSE NoToken

\* Lines 97-100: the token of the environment, when it is set.
EnvToken(e) == e["CEDA_ACCESS_TOKEN"]

\* A caller calls setup_credentials() (lines 97-103).
CallSetupCredentials ==
    /\ pc = "idle"
    /\ LET token == EnvToken(env)
       IN  IF token.set
           THEN /\ reads' = <<"CEDA_ACCESS_TOKEN">>
                /\ out' = <<PrintMsg("[INFO] CEDA access token loaded from environment.")>>
                /\ result' = ReturnToken(token.val)
                /\ call' = [NoCall EXCEPT !.fn = "setup_credentials"]
                /\ pc' = "done"
                /\ UNCHANGED <<env, sent, resp, parsed>>
           ELSE RefreshBegin("setup_credentials", None, None,
                    <<"CEDA_ACCESS_TOKEN">>,
                    <<PrintMsg("[INFO] CEDA_ACCESS_TOKEN not found, generating new token...")>>)

\* The token endpoint answers and refresh_access_token finishes (lines 76-84).
PostResponse ==
    /\ pc = "post_wait"
    /\ \E status \in Statuses, text \in PostTexts :
          /\ resp' = [status |-> status, text |-> text]
          /\ parsed' = (status = StatusOK)
          /\ out' = out \o RefreshPrints(status, text)
          /\ result' = RefreshOutcome(status, text)
    /\ pc' = "done"
    /\ UNCHANGED <<env, call, sent, reads>>

\* A caller calls get_weather_data(url, access_token) (lines 119-120).
CallGetWeatherData ==
    /\ pc = "idle"
    /\ \E url \in Urls, access_token \in BearerTokens :
          /\ call' = [NoCall EXCEPT !.fn = "get_weather_data", !.url = url,
                                    !.access_token = access_token]
          /\ sent' = GetRequests(url, access_token)
    /\ pc' = "get_wait"
    /\ UNCHANGED <<env, out, reads, resp, parsed, result>>

\* Lines 122-123: what get_weather_data prints.
GetPrints(status, body) ==
    IF status = StatusOK THEN <<PrintBody(body)>> ELSE <<>>

\* The archive answers and get_weather_data finishes (lines 122-138).
GetResponse ==
    /\ pc = "get_wait"
    /\ \E status \in Statuses, body \in GetBodies :
          /\ resp' = [status |-> status, text |-> body]
          /\ parsed' = (status = StatusOK)
          /\ out' = out \o GetPrints(status, body)
          /\ result' = GetOutcome(status, body)
    /\ pc' = "done"
    /\ UNCHANGED <<env, call, sent, reads>>

Next ==
    \/ CallRefreshAccessToken
    \/ CallSetupCredentials
    \/ CallGetWeatherData
    \/ PostResponse
    \/ GetResponse

Spec == Init /\ [][Next]_vars

\* ================================================================ claims
Done == pc = "done"
IsSetup == call.fn = "setup_credentials"
IsRefresh == call.fn = "refresh_access_token"
IsGet == call.fn = "get_weather_data"
\* refresh_access_token ran: called directly, or by setup_credentials.
RefreshRan == IsRefresh \/ (IsSetup /\ ~env["CEDA_ACCESS_TOKEN"].set)
Methods(m) == { i \in 1..Len(sent) : sent[i].method = m }
InSeq(x, sq) == \E i \in 1..Len(sq) : sq[i] = x

\* The bytes of a base64 text: the inverse of b64encode.
RECURSIVE B64Decode(_)
B64Decode(c) ==
    IF Len(c) < 4 THEN <<>>
    ELSE IF c[3] = 64 THEN <<c[1] * 4 + c[2] \div 16>>
    ELSE IF c[4] = 64
         THEN <<c[1] * 4 + c[2] \div 16, (c[2] % 16) * 16 + c[3] \div 4>>
    ELSE <<c[1] * 4 + c[2] \div 16, (c[2] % 16) * 16 + c[3] \div 4,
           (c[3] % 4) * 64 + c[4]>>
         \o B64Decode(SubSeq(c, 5, Len(c)))

\* C1: setup_credentials returns the value of CEDA_ACCESS_TOKEN whenever it
\* is set (the empty string included), sending no request and reading no
\* other variable; only when it is not set does it run
\* refresh_access_token() with no arguments and end as that call ends.
C1_SetupCredentials ==
    IsSetup =>
        /\ Len(reads) >= 1 /\ reads[1] = "CEDA_ACCESS_TOKEN"
        /\ IF env["CEDA_ACCESS_TOKEN"].set
           THEN /\ Done
                /\ result.kind = "return"
                /\ result.token = env["CEDA_ACCESS_TOKEN"].val
                /\ sent = <<>>
                /\ reads = <<"CEDA_ACCESS_TOKEN">>
           ELSE /\ ~call.username.set /\ ~call.password.set
                /\ reads = <<"CEDA_ACCESS_TOKEN">>
                              \o ResolveCredentials(None, None, env).reads
                /\ Done =>
                      result =
                         IF ~env["CEDA_USERNAME"].set
                         THEN RaiseKeyError("CEDA_USERNAME")
                         ELSE IF ~env["CEDA_PASSWORD"].set
                         THEN RaiseKeyError("CEDA_PASSWORD")
                         ELSE RefreshOutcome(resp.status, resp.text)

C1_Witness ==
    /\ IsSetup /\ Done
    /\ env["CEDA_ACCESS_TOKEN"].set /\ env["CEDA_ACCESS_TOKEN"].val = ""
    /\ env["CEDA_USERNAME"].set
    /\ result.kind = "return" /\ result.token = ""

\* C2: with both credentials resolved, refresh_access_token returns the
\* "access_token" field of the body on status 200, raises RuntimeError with
\* the status and the text on every other status, and returns no token on
\* a status other than 200.
C2_RefreshByStatus ==
    (RefreshRan /\ Done /\ call.resolved) =>
        LET body == JsonLoads(resp.text)
        IN  /\ (/\ resp.status = StatusOK
                /\ body.kind = "object"
                /\ "access_token" \in DOMAIN body.obj)
                  => /\ result.kind = "return"
                     /\ result.token = body.obj["access_token"]
            /\ resp.status # StatusOK
                  => /\ result.kind = "raise" /\ result.exc = "RuntimeError"
                     /\ result.status = resp.status /\ result.text = resp.text
            /\ result.kind = "return" => resp.status = StatusOK

C2_Witness ==
    /\ IsRefresh /\ Done /\ call.resolved
    /\ resp.status = StatusOK
    /\ result.kind = "return" /\ result.token = "tokNew"

\* C3: get_weather_data raises RuntimeError with the status and the text
\* for every response whose status is not 200, without parsing the body
\* and without returning a table.
C3_GetRaisesOnStatus ==
    (IsGet /\ Done /\ resp.status # StatusOK) =>
        /\ result.kind = "raise" /\ result.exc = "RuntimeError"
        /\ result.status = resp.status /\ result.text = resp.text
        /\ result.table = NoTable
        /\ ~parsed
        /\ out = <<>>

C3_Witness ==
    /\ IsGet /\ Done /\ resp.status = 404
    /\ Len(SplitOn(resp.text, DataLine)) = 2
    /\ result.exc = "RuntimeError"

\* The body has a header of plain lines with an observation_station line,
\* the data marker at line i, rows of the table up to the end marker at
\* line j, and no second data marker after it.
C4_Shape(body, i, j) ==
    /\ 1 < i /\ i + 1 < j /\ j < Len(body)
    /\ body[i] = DataLine /\ body[j] = EndDataLine
    /\ \A k \in 1..(i - 1) : body[k] \in {ObsA, ObsB, Row}
    /\ \E k \in 1..(i - 1) : body[k] \in {ObsA, ObsB}
    /\ \A k \in (i + 1)..(j - 1) : body[k] = Row
    /\ \A k \in (j + 1)..(Len(body) - 1) : body[k] # DataLine

C4_FirstObs(body, i) ==
    CHOOSE k \in 1..(i - 1) :
        /\ body[k] \in {ObsA, ObsB}
        /\ \A m \in 1..(k - 1) : body[m] \notin {ObsA, ObsB}

C5_MissingCredential ==
    RefreshRan =>
        LET noUser == ~call.username.set /\ ~env["CEDA_USERNAME"].set
            noPass == ~call.password.set /\ ~env["CEDA_PASSWORD"].set
        IN  /\ noUser => /\ Done /\ result.kind = "raise"
                         /\ result.exc = "KeyError" /\ result.var = "CEDA_USERNAME"
                         /\ sent = <<>>
            /\ (~noUser /\ noPass)
                  => /\ Done /\ result.kind = "raise"
                     /\ result.exc = "KeyError" /\ result.var = "CEDA_PASSWORD"
                     /\ sent = <<>>
            /\ (~noUser /\ ~noPass) => ~(result.exc = "KeyError" /\ sent = <<>>)

C5_Witness ==
    /\ IsRefresh /\ Done
    /\ ~call.username.set /\ ~env["CEDA_USERNAME"].set
    /\ ~call.password.set /\ ~env["CEDA_PASSWORD"].set
    /\ result.exc = "KeyError" /\ result.var = "CEDA_USERNAME"

\* C6: no retries.  Over one call get_weather_data sends exactly one GET;
\* refresh_access_token sends exactly one POST when both credentials
\* resolve and none otherwise; setup_credentials sends at most one POST;
\* a call that has ended, in a failure or not, has sent no more than that.
C6_NoRetries ==
    /\ IsGet => Len(sent) = 1 /\ Methods("GET") = {1}
    /\ IsRefresh => /\ Methods("GET") = {}
                    /\ Len(sent) = IF call.resolved THEN 1 ELSE 0
    /\ IsSetup => Methods("GET") = {} /\ Len(sent) <= 1
    /\ (pc = "idle") => sent = <<>>
    /\ (Done /\ result.kind = "raise") => Len(sent) <= 1

C6_Witness ==
    /\ IsRefresh /\ Done /\ resp.status # StatusOK
    /\ result.kind = "raise" /\ Len(sent) = 1

\* A 200 body get_weather_data can parse: one data marker, a table in the
\* data section, an observation_station line in the header.
C7_WeatherParses(body) ==
    LET parts == SplitOn(body, DataLine)
    IN  /\ Len(parts) = 2
        /\ ReadCsv(SplitOn(parts[2], EndDataLine)[1]).err = ""
        /\ ObsMatches(parts[1]) # {}

\* A 200 body refresh_access_token can parse: a JSON object with the field.
C7_TokenParses(text) ==
    /\ JsonLoads(text).kind = "object"
    /\ "access_token" \in DOMAIN JsonLoads(text).obj

\* C7 as stated: every call that got a 200 response returns a value.
C7_Returns200 ==
    (Done /\ resp.status = StatusOK) => result.kind = "return"

\* C7, amended: RuntimeError on a status other than 200 and KeyError for a
\* credential missing from the arguments and the environment are the
\* exceptions the functions raise themselves.  A 200 response returns a
\* value exactly when its body parses; any other 200 body ends the call in
\* the exception of the step that failed (ValueError, EmptyDataError,
\* ParserError or AttributeError in get_weather_data; JSONDecodeError,
\* TypeError or KeyError 'access_token' in refresh_access_token).
C7_RaisesOnlyWhen ==
    Done =>
        /\ result.kind \in {"return", "raise"}
        /\ (result.exc = "RuntimeError")
              <=> (resp.status # 0 /\ resp.status # StatusOK)
        /\ (result.exc = "KeyError" /\ result.var # "access_token")
              <=> (RefreshRan /\ ~call.resolved)
        /\ (IsGet /\ resp.status = StatusOK) =>
              /\ (result.kind = "return") <=> C7_WeatherParses(resp.text)
              /\ result.kind = "raise" =>
                    result.exc \in {"ValueError", "EmptyDataError", "ParserError",
                                    "AttributeError"}
        /\ (RefreshRan /\ resp.status = StatusOK) =>
              /\ (result.kind = "return") <=> C7_TokenParses(resp.text)
              /\ result.kind = "raise" =>
                    \/ result.exc \in {"JSONDecodeError", "TypeError"}
                    \/ result.exc = "KeyError" /\ result.var = "access_token"

C7_Witness ==
    /\ IsRefresh /\ Done /\ resp.status = StatusOK
    /\ resp.text = <<"{", "detail", ":", "denied", "}">>
    /\ result.kind = "raise" /\ result.exc = "KeyError"

\* C8: an argument takes precedence over the environment.
\* refresh_access_token reads CEDA_USERNAME only when username is None and
\* CEDA_PASSWORD only when password is None; its POST goes to the fixed
\* endpoint with Authorization: Basic base64(username:password) of the
\* resolved credentials.  get_weather_data sends its GET to the url it was
\* given with Authorization: Bearer access_token and reads no variable.
C8_ArgumentsFirst ==
    /\ RefreshRan =>
          /\ InSeq("CEDA_USERNAME", reads) => ~call.username.set
          /\ InSeq("CEDA_PASSWORD", reads) => ~call.password.set
          /\ sent # <<>> =>
                /\ sent[1].method = "POST"
                /\ sent[1].url = "https://services.ceda.ac.uk/api/token/create/"
                /\ sent[1].hdr.scheme = "Basic"
                /\ B64Decode(sent[1].hdr.cred) =
                      (IF call.username.set THEN call.username.val
                       ELSE env["CEDA_USERNAME"].val)
                      \o <<58>> \o
                      (IF call.password.set THEN call.password.val
                       ELSE env["CEDA_PASSWORD"].val)
    /\ IsGet =>
          /\ sent = <<[method |-> "GET", url |-> call.url,
                       hdr |-> [scheme |-> "Bearer", cred |-> call.access_token]]>>
          /\ reads = <<>>

C8_Witness ==
    /\ IsRefresh /\ pc = "post_wait"
    /\ call.username.set /\ env["CEDA_USERNAME"].set
    /\ ~call.password.set
    /\ B64Decode(sent[1].hdr.cred) = ArgUser \o <<58>> \o EnvPass

\* What refresh_access_token prints over a call with these credentials
\* and this response (lines 72 and 79).
C9_Output(username, password, status, text) ==
    <<PrintHeaders(BasicHeader(username, password))>> \o RefreshPrints(status, text)

\* C9: what refresh_access_token and setup_credentials print does not
\* depend on the password: the same call with any other password, the
\* same username and the same response prints the same output.
C9_OutputHidesPassword ==
    (RefreshRan /\ Done /\ call.resolved) =>
        \A p \in Passwords :
            out = (IF IsSetup THEN <<out[1]>> ELSE <<>>)
                  \o C9_Output(call.user, p, resp.status, resp.text)

\* The lines of the header block that name a station.
C10_ObsLines(header) == { k \in 1..Len(header) : header[k] \in {ObsA, ObsB} }

\* C10: for a 200 response with two or more observation_station lines in
\* the header the call ends in RuntimeError 'Multiple matches found for
\* location in the csv.'; with exactly one it does not.
C10_MultipleMatchesRaise ==
    (IsGet /\ Done /\ resp.status = StatusOK /\ C7_WeatherParses(resp.text)) =>
        LET header == SplitOn(resp.text, DataLine)[1]
            multiple == result.exc = "RuntimeError" /\ result.var = MultipleMatches
        IN  /\ Cardinality(C10_ObsLines(header)) >= 2 => multiple
            /\ Cardinality(C10_ObsLines(header)) = 1 => ~multiple

====
